---- MODULE Spec2Model ----
(***************************************************************************)
(* A model of FlightPricePredictor (src/main_model.py): the data cleaner,  *)
(* the feature engineer, the model trainer, the artifact store and the     *)
(* single-record predictor.                                                *)
(*                                                                         *)
(* Representation of Python values                                         *)
(*   - a text value is a sequence of one-character strings, so that        *)
(*     slicing (str[:2]), stripping and sorting can be computed;           *)
(*   - a timestamp cell is [T, ok, ts]: whether the text holds a 'T',      *)
(*     whether pandas can parse it, and the instant it denotes;            *)
(*   - a clock cell is [isStr, f]: f is the text split at ':' and each     *)
(*     field is [isInt, v] (whether int() accepts it, and its value);      *)
(*   - a float that may be NaN is [nan, v];                                *)
(*   - a quotient that need not be whole is [num, den].                    *)
(***************************************************************************)
EXTENDS Integers, Sequences, FiniteSets, TLC

VARIABLES
    csv_file,                \* self.csv_file: the table the file holds, or NoTable
    df,                      \* self.df
    X,                       \* self.X (and self.y: each row carries its price)
    label_encoders,          \* self.label_encoders: column -> classes_
    best_model,              \* self.best_model
    model_type,              \* self.model_type
    feature_columns,         \* self.feature_columns
    results,                 \* self.results
    price_stats,             \* self.price_stats
    route_popularity_stats,  \* self.route_popularity_stats
    airline_popularity_stats,\* self.airline_popularity_stats
    disk,                    \* the artifact file flight_price_model.pkl
    last,                    \* the last call: its argument, its outcome, its return value
    memo,                    \* the first prediction made since the bundle was last written,
                             \* and whether another record was predicted since
    completed                \* whether a training or a load_model call has completed

vars == <<csv_file, df, X, label_encoders, best_model, model_type, feature_columns,
          results, price_stats, route_popularity_stats, airline_popularity_stats,
          disk, last, memo, completed>>

bundle == <<best_model, model_type, feature_columns, label_encoders, price_stats,
            route_popularity_stats, airline_popularity_stats>>

----------------------------------------------------------------------------
(* Generic helpers *)

Min2(a, b) == IF a <= b THEN a ELSE b
Max2(a, b) == IF a >= b THEN a ELSE b

Range(s) == {s[i] : i \in 1..Len(s)}

RECURSIVE SeqSum(_)
SeqSum(s) == IF s = <<>> THEN 0 ELSE s[1] + SeqSum(Tail(s))

\* integers sorted ascending
RECURSIVE SortInts(_)
SortInts(s) ==
    IF s = <<>> THEN <<>>
    ELSE LET i == CHOOSE i \in 1..Len(s) : \A j \in 1..Len(s) : s[i] <= s[j]
         IN <<s[i]>> \o SortInts(SubSeq(s, 1, i - 1) \o SubSeq(s, i + 1, Len(s)))

----------------------------------------------------------------------------
(* Text *)

\* the characters the tables use, in code-point order
Alphabet == <<" ", "0", "1", "2", "3", "4", "5", "6", "7", "8", "9",
              "A", "B", "D", "E", "F", "G", "H", "J", "N", "S", "V",
              "a", "c", "i", "n", "o", "r", "s", "t", "u">>

Ord(c) == CHOOSE i \in 1..Len(Alphabet) : Alphabet[i] = c

\* Python's str comparison: lexicographic by code point
StrLess(a, b) ==
    \E i \in 1..(Min2(Len(a), Len(b)) + 1) :
        /\ \A j \in 1..(i - 1) : a[j] = b[j]
        /\ \/ i > Len(a) /\ i <= Len(b)
           \/ i <= Len(a) /\ i <= Len(b) /\ Ord(a[i]) < Ord(b[i])

\* a missing cell of a text column
NA == <<"<NA>">>

\* str.strip(): leading and trailing blanks removed; a missing cell stays missing
RECURSIVE LStrip(_)
LStrip(s) == IF s /= <<>> /\ s[1] = " " THEN LStrip(Tail(s)) ELSE s
RECURSIVE RStrip(_)
RStrip(s) == IF s /= <<>> /\ s[Len(s)] = " " THEN RStrip(SubSeq(s, 1, Len(s) - 1)) ELSE s
Strip(s) == IF s = NA THEN NA ELSE RStrip(LStrip(s))

\* Series.astype(str): a missing cell becomes the text 'nan'
AsStr(s) == IF s = NA THEN <<"n", "a", "n">> ELSE s

\* Series.str[:2]
StrPrefix2(s) == IF s = NA THEN NA ELSE SubSeq(s, 1, Min2(2, Len(s)))

----------------------------------------------------------------------------
(* Calendar: what pandas computes for .dt.hour, .dt.dayofweek, .dt.month and  *)
(* for the difference of two timestamps                                       *)

DaysFromCivil(y, m, d) ==
    LET yy  == IF m <= 2 THEN y - 1 ELSE y
        era == yy \div 400
        yoe == yy - era * 400
        mp  == IF m > 2 THEN m - 3 ELSE m + 9
        doy == (153 * mp + 2) \div 5 + d - 1
        doe == yoe * 365 + yoe \div 4 - yoe \div 100 + doy
    IN era * 146097 + doe - 719468

EpochMinutes(ts) == DaysFromCivil(ts.y, ts.mo, ts.d) * 1440 + ts.h * 60 + ts.mi

dt_hour(ts) == ts.h
dt_month(ts) == ts.mo
\* Monday is 0; 1970-01-01 was a Thursday
dt_dayofweek(ts) == (DaysFromCivil(ts.y, ts.mo, ts.d) + 3) % 7
\* Timedelta.days: the floor of the difference in days
timedelta_days(a, b) == (EpochMinutes(a) - EpochMinutes(b)) \div 1440

----------------------------------------------------------------------------
(* Clock times *)

Tok(v) == [isInt |-> TRUE, v |-> v]
BadTok == [isInt |-> FALSE, v |-> 0]
Clock(h, m) == [isStr |-> TRUE, f |-> <<Tok(h), Tok(m)>>]
Num(v) == [nan |-> FALSE, v |-> v]
NaNum == [nan |-> TRUE, v |-> 0]

\* hour, minute = map(int, time_str.split(':')) succeeds
ClockParses(c) == c.isStr /\ Len(c.f) = 2 /\ c.f[1].isInt /\ c.f[2].isInt

\* feature_engineering's time_to_minutes: NaN when the parse fails
fe_time_to_minutes(c) ==
    IF ClockParses(c) THEN Num(c.f[1].v * 60 + c.f[2].v) ELSE NaNum

\* predict_single_flight's time_to_minutes: 0 when the parse fails
\* variant: a leading integer field is kept as the hours of a malformed value
psf_time_to_minutes_keeping_hours(c) ==
    IF ClockParses(c) THEN c.f[1].v * 60 + c.f[2].v
    ELSE IF c.isStr /\ Len(c.f) >= 1 /\ c.f[1].isInt THEN c.f[1].v * 60
    ELSE 0

psf_time_to_minutes(c) ==
    IF ClockParses(c) THEN c.f[1].v * 60 + c.f[2].v ELSE 0

\* feature_engineering: arrival - departure, plus 24 * 60 where negative
fe_flight_duration(dep, arr) ==
    IF dep.nan \/ arr.nan THEN NaNum
    ELSE IF arr.v - dep.v < 0 THEN Num(arr.v - dep.v + 24 * 60)
    ELSE Num(arr.v - dep.v)

\* predict_single_flight: the same on the one row
\* variant: the arrival is never moved to the next day
psf_flight_duration_same_day(dep, arr) == arr - dep

psf_flight_duration(dep, arr) ==
    IF arr - dep < 0 THEN arr - dep + 24 * 60 ELSE arr - dep

\* feature_engineering's categorize_time_of_day (every comparison with NaN is false)
fe_categorize_time_of_day(minutes) ==
    IF minutes.nan THEN 3
    ELSE LET hour == minutes.v \div 60
         IN IF 6 <= hour /\ hour < 12 THEN 0
            ELSE IF 12 <= hour /\ hour < 18 THEN 1
            ELSE IF 18 <= hour /\ hour < 22 THEN 2
            ELSE 3

\* predict_single_flight's categorize_time_of_day
psf_categorize_time_of_day(minutes) ==
    LET hour == minutes \div 60
    IN IF 6 <= hour /\ hour < 12 THEN 0
       ELSE IF 12 <= hour /\ hour < 18 THEN 1
       ELSE IF 18 <= hour /\ hour < 22 THEN 2
       ELSE 3

\* feature_engineering's categorize_advance_booking
\* variant: the boundaries belong to the lower bucket
fe_categorize_advance_booking_inclusive(days) ==
    IF days <= 7 THEN 0
    ELSE IF days <= 30 THEN 1
    ELSE IF days <= 90 THEN 2
    ELSE 3

fe_categorize_advance_booking(days) ==
    IF days < 7 THEN 0
    ELSE IF days < 30 THEN 1
    ELSE IF days < 90 THEN 2
    ELSE 3

\* predict_single_flight's categorize_advance_booking
psf_categorize_advance_booking(days) ==
    IF days < 7 THEN 0
    ELSE IF days < 30 THEN 1
    ELSE IF days < 90 THEN 2
    ELSE 3

\* (flight_date - create_at).dt.days, in feature_engineering and in predict_single_flight
fe_days_in_advance(create_at, flight_date) == timedelta_days(flight_date, create_at)
psf_days_in_advance(create_at, flight_date) == timedelta_days(flight_date, create_at)

\* (day_of_week >= 5).astype(int)
fe_is_weekend(dow) == IF dow >= 5 THEN 1 ELSE 0
psf_is_weekend(dow) == IF dow >= 5 THEN 1 ELSE 0

----------------------------------------------------------------------------
(* LabelEncoder *)

\* np.unique: the distinct values, sorted
RECURSIVE SortedUnique(_)
SortedUnique(S) ==
    IF S = {} THEN <<>>
    ELSE LET m == CHOOSE x \in S : \A y \in S : x = y \/ StrLess(x, y)
         IN <<m>> \o SortedUnique(S \ {m})

\* LabelEncoder.fit: classes_
\* variant: classes_ keeps the values as they come, unsorted and repeated
le_fit_in_order(values) == values

le_fit(values) == SortedUnique(Range(values))

InVocabulary(classes, v) == \E i \in 1..Len(classes) : classes[i] = v

\* LabelEncoder.transform of a value of classes_: its position, from 0
le_code(classes, v) == (CHOOSE i \in 1..Len(classes) : classes[i] = v) - 1

\* LabelEncoder.inverse_transform
le_inverse(classes, code) == classes[code + 1]

categorical_cols == <<"flight_number", "departure_airport", "arrival_airport",
                      "classes", "type_of_plane", "airline">>

Encoded(col) ==
    CASE col = "flight_number" -> "flight_number_encoded"
      [] col = "departure_airport" -> "departure_airport_encoded"
      [] col = "arrival_airport" -> "arrival_airport_encoded"
      [] col = "classes" -> "classes_encoded"
      [] col = "type_of_plane" -> "type_of_plane_encoded"
      [] col = "airline" -> "airline_encoded"

\* the feature columns feature_engineering lists, in its order
all_feature_columns ==
    <<"flight_number_encoded", "departure_airport_encoded",
      "arrival_airport_encoded", "classes_encoded", "type_of_plane_encoded",
      "airline_encoded",
      "create_hour", "create_day_of_week", "create_month",
      "flight_month", "flight_day_of_week",
      "days_in_advance", "departure_minutes", "flight_duration",
      "is_weekend_booking", "is_weekend_flight",
      "booking_category", "departure_time_category",
      "route_popularity", "airline_popularity">>

----------------------------------------------------------------------------
(* Python's None, and dict lookups *)

None == <<>>
Some(v) == <<v>>
Val(o) == o[1]

HasKey(d, k) == k \in DOMAIN d
EmptyDict == [k \in {} |-> 0]

\* a quotient kept as numerator and denominator
Ratio(n, d) == [num |-> n, den |-> d]
\* the standard deviation of a sample, kept as the sample it is taken over
StdOf(sample) == [std_of |-> SortInts(sample)]

----------------------------------------------------------------------------
(* load_and_preprocess_data *)

\* pd.read_csv: the rows, labelled by their position
read_csv(table) == [i \in 1..Len(table) |-> [idx |-> i] @@ table[i]]

SameCells(a, b) == [a EXCEPT !.idx = 0] = [b EXCEPT !.idx = 0]

\* DataFrame.drop_duplicates(): the first of equal rows is kept
drop_duplicates(rows) ==
    SelectSeq(rows, LAMBDA r :
        ~ \E j \in 1..Len(rows) : rows[j].idx < r.idx /\ SameCells(rows[j], r))

Prices(rows) == [i \in 1..Len(rows) |-> rows[i].price]

\* Series.quantile(k/4), linear interpolation between the two nearest ranks
quantile(prices, k) ==
    LET x  == SortInts(prices)
        n  == Len(x)
        lo == ((n - 1) * k) \div 4
        r  == ((n - 1) * k) % 4
    IN IF r = 0 THEN Ratio(4 * x[lo + 1], 4)
       ELSE Ratio((4 - r) * x[lo + 1] + r * x[lo + 2], 4)

\* lower_bound = Q1 - 1.5 * IQR and upper_bound = Q3 + 1.5 * IQR, in eighths
lower_bound(Q1, Q3) == Ratio(2 * Q1.num - 3 * (Q3.num - Q1.num), 8)
upper_bound(Q1, Q3) == Ratio(2 * Q3.num + 3 * (Q3.num - Q1.num), 8)

\* the rows whose price lies within the bounds
within_bounds(rows, Q1, Q3) ==
    SelectSeq(rows, LAMBDA r :
        /\ 8 * r.price >= lower_bound(Q1, Q3).num
        /\ 8 * r.price <= upper_bound(Q1, Q3).num)

SeqMin(s) == CHOOSE v \in Range(s) : \A w \in Range(s) : v <= w
SeqMax(s) == CHOOSE v \in Range(s) : \A w \in Range(s) : v >= w

\* the price_stats dict, from the rows min/max/mean/std are taken over and the quartiles
make_price_stats(rows, Q1, Q3) ==
    [min |-> SeqMin(Prices(rows)), max |-> SeqMax(Prices(rows)),
     mean |-> Ratio(SeqSum(Prices(rows)), Len(rows)),
     std |-> StdOf(Prices(rows)), Q1 |-> Q1, Q3 |-> Q3]

\* pd.to_datetime(..., errors='coerce') then dropna
drop_bad_create_at(rows) == SelectSeq(rows, LAMBDA r : r.create_at.ok)

\* parse_flight_date then dropna: only a text holding 'T' is parsed
parse_flight_date_ok(cell) == cell.T /\ cell.ok
drop_bad_flight_date(rows) == SelectSeq(rows, LAMBDA r : parse_flight_date_ok(r.flight_date))

\* str.strip(), then the rows with '' and the missing ones are dropped
strip_type_of_plane(rows) ==
    [i \in 1..Len(rows) |-> [rows[i] EXCEPT !.type_of_plane = Strip(@)]]
drop_blank_type_of_plane(rows) ==
    SelectSeq(rows, LAMBDA r : r.type_of_plane /= <<>> /\ r.type_of_plane /= NA)

\* the price statistics load_and_preprocess_data stores
\* variant: min, max, mean and std taken before the outlier filter
clean_price_stats_before_outliers(table) ==
    LET dedup == drop_duplicates(read_csv(table))
        Q1    == quantile(Prices(dedup), 1)
        Q3    == quantile(Prices(dedup), 3)
    IN make_price_stats(dedup, Q1, Q3)

clean_price_stats(table) ==
    LET dedup == drop_duplicates(read_csv(table))
        Q1    == quantile(Prices(dedup), 1)
        Q3    == quantile(Prices(dedup), 3)
    IN make_price_stats(within_bounds(dedup, Q1, Q3), Q1, Q3)

\* the table load_and_preprocess_data leaves in self.df
\* read_csv types a column with no value at all as float64, and .str on such
\* a column raises AttributeError
str_accessor_fails(table) == \A i \in 1..Len(table) : table[i].type_of_plane = NA

\* self.df when line 90 is reached
rows_before_strip(table) ==
    LET dedup == drop_duplicates(read_csv(table))
        Q1    == quantile(Prices(dedup), 1)
        Q3    == quantile(Prices(dedup), 3)
    IN drop_bad_flight_date(drop_bad_create_at(within_bounds(dedup, Q1, Q3)))

clean_df(table) ==
    LET dedup == drop_duplicates(read_csv(table))
        Q1    == quantile(Prices(dedup), 1)
        Q3    == quantile(Prices(dedup), 3)
        kept  == within_bounds(dedup, Q1, Q3)
    IN drop_blank_type_of_plane(strip_type_of_plane(
           drop_bad_flight_date(drop_bad_create_at(kept))))

----------------------------------------------------------------------------
(* feature_engineering *)

\* groupby(['departure_airport', 'arrival_airport']).size(), looked up for the row
route_count(rows, r) ==
    IF r.departure_airport = NA \/ r.arrival_airport = NA THEN 0
    ELSE Cardinality({i \in 1..Len(rows) :
            /\ rows[i].departure_airport = r.departure_airport
            /\ rows[i].arrival_airport = r.arrival_airport})

\* value_counts() of the airline prefix, mapped onto the row
airline_count(rows, r) ==
    IF r.flight_number = NA THEN 0
    ELSE Cardinality({i \in 1..Len(rows) :
            StrPrefix2(rows[i].flight_number) = StrPrefix2(r.flight_number)})

\* the value of a categorical column on a row ('airline' is derived)
CatValue(r, col) ==
    CASE col = "flight_number" -> r.flight_number
      [] col = "departure_airport" -> r.departure_airport
      [] col = "arrival_airport" -> r.arrival_airport
      [] col = "classes" -> r.classes
      [] col = "type_of_plane" -> r.type_of_plane
      [] col = "airline" -> StrPrefix2(r.flight_number)

\* the encoders feature_engineering fits: column -> classes_
fit_label_encoders(rows) ==
    [col \in Range(categorical_cols) |->
        le_fit([i \in 1..Len(rows) |-> AsStr(CatValue(rows[i], col))])]

\* the columns feature_engineering derives for one row of the cleaned table
fe_row(rows, enc, r) ==
    LET create_dow == dt_dayofweek(r.create_at.ts)
        flight_dow == dt_dayofweek(r.flight_date.ts)
        days       == fe_days_in_advance(r.create_at.ts, r.flight_date.ts)
        dep        == fe_time_to_minutes(r.departure_time)
        arr        == fe_time_to_minutes(r.arrival_time)
    IN [flight_number_encoded     |-> le_code(enc["flight_number"], AsStr(r.flight_number)),
        departure_airport_encoded |-> le_code(enc["departure_airport"], AsStr(r.departure_airport)),
        arrival_airport_encoded   |-> le_code(enc["arrival_airport"], AsStr(r.arrival_airport)),
        classes_encoded           |-> le_code(enc["classes"], AsStr(r.classes)),
        type_of_plane_encoded     |-> le_code(enc["type_of_plane"], AsStr(r.type_of_plane)),
        airline_encoded           |-> le_code(enc["airline"], AsStr(StrPrefix2(r.flight_number))),
        create_hour               |-> dt_hour(r.create_at.ts),
        create_day_of_week        |-> create_dow,
        create_month              |-> dt_month(r.create_at.ts),
        flight_month              |-> dt_month(r.flight_date.ts),
        flight_day_of_week        |-> flight_dow,
        days_in_advance           |-> days,
        departure_minutes         |-> dep,
        arrival_minutes           |-> arr,
        flight_duration           |-> fe_flight_duration(dep, arr),
        is_weekend_booking        |-> fe_is_weekend(create_dow),
        is_weekend_flight         |-> fe_is_weekend(flight_dow),
        booking_category          |-> fe_categorize_advance_booking(days),
        departure_time_category   |-> fe_categorize_time_of_day(dep),
        route_popularity          |-> route_count(rows, r),
        airline_popularity        |-> airline_count(rows, r)]

\* self.df after feature_engineering: each row with its derived columns
fe_df(rows) ==
    LET enc == fit_label_encoders(rows)
    IN [i \in 1..Len(rows) |-> [raw |-> rows[i], derived |-> fe_row(rows, enc, rows[i])]]

\* {'mean', 'std'} of a column of counts
popularity_stats(counts) ==
    [mean |-> Ratio(SeqSum(counts), Len(counts)), std |-> StdOf(counts)]

fe_route_popularity_stats(rows) ==
    popularity_stats([i \in 1..Len(rows) |-> route_count(rows, rows[i])])
fe_airline_popularity_stats(rows) ==
    popularity_stats([i \in 1..Len(rows) |-> airline_count(rows, rows[i])])

\* a row of self.X (with its label and its target, self.y): the feature columns,
\* the rows with a missing value masked out, so that every value is a number
has_null(d) == d.departure_minutes.nan \/ d.arrival_minutes.nan \/ d.flight_duration.nan

x_value(d, col) ==
    CASE col = "departure_minutes" -> d.departure_minutes.v
      [] col = "flight_duration" -> d.flight_duration.v
      [] OTHER -> d[col]

fe_X(rows) ==
    LET full == fe_df(rows)
        kept == SelectSeq(full, LAMBDA e : ~ has_null(e.derived))
    IN [i \in 1..Len(kept) |->
          [idx |-> kept[i].raw.idx, y |-> kept[i].raw.price,
           v |-> [col \in Range(all_feature_columns) |-> x_value(kept[i].derived, col)]]]

----------------------------------------------------------------------------
(* train_and_evaluate_models *)

\* the candidates, in the order the models dict lists them
model_names == <<"Random Forest", "Gradient Boosting", "Decision Tree">>

\* train_test_split(test_size=0.2): the size of the training part
n_train(n) == n - ((n + 4) \div 5)

\* KFold(n_splits=5) needs five training rows
n_splits == 5
can_cross_validate(n) == n_train(n) >= n_splits

\* min(self.results.keys(), key=cv_mae_mean): the first candidate, in the dict's
\* order, that no other candidate beats
\* variant: selection by the error on the held-out test rows
best_model_name_by_test_mae(res) ==
    LET i == CHOOSE i \in 1..Len(model_names) :
                /\ \A j \in 1..Len(model_names) :
                      res[model_names[i]].test_mae <= res[model_names[j]].test_mae
                /\ \A j \in 1..(i - 1) :
                      res[model_names[j]].test_mae > res[model_names[i]].test_mae
    IN model_names[i]

best_model_name(res) ==
    LET i == CHOOSE i \in 1..Len(model_names) :
                /\ \A j \in 1..Len(model_names) :
                      res[model_names[i]].cv_mae_mean <= res[model_names[j]].cv_mae_mean
                /\ \A j \in 1..(i - 1) :
                      res[model_names[j]].cv_mae_mean > res[model_names[i]].cv_mae_mean
    IN model_names[i]

\* self.results after the loop: per candidate, its fitted model and its errors
\* (the fitted regressor is kept as its kind and a seed standing for what it learnt)
make_results(cv, test, seed) ==
    [name \in Range(model_names) |->
        [model |-> [kind |-> name, seed |-> seed],
         cv_mae_mean |-> cv[name], test_mae |-> test[name]]]

----------------------------------------------------------------------------
(* predict_single_flight *)

\* the prices a fitted regressor may return
RawOutputs == <<50000, 90000, 150000, 1200000, 2500000, 60000000>>

popularity_columns == {"route_popularity", "airline_popularity"}

FeatNum(col, v) == IF col \in popularity_columns THEN v.num ELSE v

\* best_model.predict(X_input)[0]: a function of the fitted model and of the
\* row's values in the order they are given
KindIndex(kind) == CHOOSE i \in 1..Len(model_names) : model_names[i] = kind

ModelPredict(m, cols, xs) ==
    LET h == SeqSum([i \in 1..Len(xs) |-> i * FeatNum(cols[i], xs[i])])
    IN RawOutputs[((m.seed + KindIndex(m.kind) + h) % Len(RawOutputs)) + 1]

\* the fixed floor and ceiling of a prediction
MinFloor == 100000
MaxCeiling == 50000000

\* np.clip(a, lo, hi) = minimum(maximum(a, lo), hi)
\* variant: the ceiling is applied first, so the floor wins when they cross
np_clip_floor_last(a, lo, hi) == Max2(Min2(a, hi), lo)

np_clip(a, lo, hi) == Min2(Max2(a, lo), hi)

\* the clipping of the raw prediction (lines 443-447)
clip_prediction(stats, prediction) ==
    IF stats /= None /\ DOMAIN Val(stats) /= {}
    THEN np_clip(prediction, Max2(Val(stats).min, MinFloor),
                 Min2(Val(stats).max, MaxCeiling))
    ELSE prediction

\* the input keys predict_single_flight reads without a guard
required_keys == {"create_at", "flight_date", "departure_time", "arrival_time",
                  "flight_number"}

\* the categorical value of the input row ('airline' is derived from flight_number)
psf_cat_value(rec, col) ==
    IF col = "airline" THEN StrPrefix2(rec["flight_number"]) ELSE rec[col]

\* the columns of df_input once the derived and encoded columns are added
psf_columns(rec, enc) ==
    DOMAIN rec \cup
    {"create_hour", "create_day_of_week", "create_month", "flight_month",
     "flight_day_of_week", "days_in_advance", "is_weekend_booking",
     "is_weekend_flight", "booking_category", "departure_minutes",
     "arrival_minutes", "flight_duration", "departure_time_category",
     "route_popularity", "airline", "airline_popularity"} \cup
    {Encoded(col) : col \in {c \in Range(categorical_cols) :
                                /\ c \in DOMAIN rec \cup {"airline"}
                                /\ c \in DOMAIN enc}}

\* le.transform, with the fallback of the except branch
\* variant: an unseen value takes the code after the last class
psf_encode_past_the_end(enc, rec, col) ==
    IF InVocabulary(enc[col], AsStr(psf_cat_value(rec, col)))
    THEN le_code(enc[col], AsStr(psf_cat_value(rec, col)))
    ELSE Len(enc[col])

psf_encode(enc, rec, col) ==
    IF InVocabulary(enc[col], AsStr(psf_cat_value(rec, col)))
    THEN le_code(enc[col], AsStr(psf_cat_value(rec, col)))
    ELSE 0

\* the value of a column of df_input
psf_value(rec, enc, col) ==
    LET create_at  == rec["create_at"].ts
        flight_date == rec["flight_date"].ts
        dep == psf_time_to_minutes(rec["departure_time"])
        arr == psf_time_to_minutes(rec["arrival_time"])
        days == psf_days_in_advance(create_at, flight_date)
    IN CASE col = "create_hour" -> dt_hour(create_at)
         [] col = "create_day_of_week" -> dt_dayofweek(create_at)
         [] col = "create_month" -> dt_month(create_at)
         [] col = "flight_month" -> dt_month(flight_date)
         [] col = "flight_day_of_week" -> dt_dayofweek(flight_date)
         [] col = "days_in_advance" -> days
         [] col = "is_weekend_booking" -> psf_is_weekend(dt_dayofweek(create_at))
         [] col = "is_weekend_flight" -> psf_is_weekend(dt_dayofweek(flight_date))
         [] col = "booking_category" -> psf_categorize_advance_booking(days)
         [] col = "departure_minutes" -> dep
         [] col = "arrival_minutes" -> arr
         [] col = "flight_duration" -> psf_flight_duration(dep, arr)
         [] col = "departure_time_category" -> psf_categorize_time_of_day(dep)
         [] col = "route_popularity" -> route_popularity_stats.mean
         [] col = "airline_popularity" -> airline_popularity_stats.mean
         [] col = "flight_number_encoded" -> psf_encode(enc, rec, "flight_number")
         [] col = "departure_airport_encoded" -> psf_encode(enc, rec, "departure_airport")
         [] col = "arrival_airport_encoded" -> psf_encode(enc, rec, "arrival_airport")
         [] col = "classes_encoded" -> psf_encode(enc, rec, "classes")
         [] col = "type_of_plane_encoded" -> psf_encode(enc, rec, "type_of_plane")
         [] col = "airline_encoded" -> psf_encode(enc, rec, "airline")

\* df_input[self.feature_columns].fillna(0): the row, in the bundle's column order
\* (no derived value of a well-formed input is missing, so fillna changes nothing)
psf_X_input(rec) ==
    [i \in 1..Len(Val(feature_columns)) |->
        psf_value(rec, label_encoders, Val(feature_columns)[i])]

Raised(kind) == [outcome |-> kind, X_input |-> None, raw |-> None, ret |-> None]

\* what a call of predict_single_flight does once it holds a model: the exception
\* it raises, or the row it assembles, the raw prediction and the price it returns
psf_body(rec) ==
    IF "create_at" \notin DOMAIN rec THEN Raised("KeyError")
    ELSE IF ~ rec["create_at"].ok THEN Raised("ValueError")
    ELSE IF "flight_date" \notin DOMAIN rec THEN Raised("KeyError")
    ELSE IF ~ rec["flight_date"].ok THEN Raised("ValueError")
    ELSE IF "departure_time" \notin DOMAIN rec \/ "arrival_time" \notin DOMAIN rec
         THEN Raised("KeyError")
    ELSE IF ~ HasKey(route_popularity_stats, "mean") THEN Raised("KeyError")
    ELSE IF "flight_number" \notin DOMAIN rec THEN Raised("KeyError")
    ELSE IF ~ HasKey(airline_popularity_stats, "mean") THEN Raised("KeyError")
    ELSE IF feature_columns = None THEN Raised("TypeError")
    ELSE IF ~ (Range(Val(feature_columns)) \subseteq psf_columns(rec, label_encoders))
         THEN Raised("KeyError")
    ELSE LET xs  == psf_X_input(rec)
             raw == ModelPredict(Val(best_model), Val(feature_columns), xs)
         IN [outcome |-> "ok", X_input |-> Some(xs), raw |-> Some(raw),
             ret |-> Some(clip_prediction(price_stats, raw))]

\* predict_single_flight, from its first line: no model, no prediction
psf_result(rec) ==
    IF best_model = None THEN Raised("ValueError: no model") ELSE psf_body(rec)

----------------------------------------------------------------------------
(* save_model and load_model *)

\* the dict save_model pickles
model_data ==
    [model |-> best_model, model_type |-> model_type,
     feature_columns |-> feature_columns, label_encoders |-> label_encoders,
     scaler |-> "RobustScaler", price_stats |-> price_stats,
     route_popularity_stats |-> route_popularity_stats,
     airline_popularity_stats |-> airline_popularity_stats]

\* the keys load_model reads with [], in the order it reads them
load_required == <<"model", "model_type", "feature_columns", "label_encoders", "scaler">>

\* the number of leading assignments of load_model that succeed on artifact a
loaded_prefix(a) ==
    IF \A i \in 1..Len(load_required) : HasKey(a, load_required[i])
    THEN Len(load_required)
    ELSE (CHOOSE i \in 1..Len(load_required) :
             /\ ~ HasKey(a, load_required[i])
             /\ \A j \in 1..(i - 1) : HasKey(a, load_required[j])) - 1

load_complete(a) == loaded_prefix(a) = Len(load_required)

\* model_data.get(key, default)
dict_get(a, key, default) == IF HasKey(a, key) THEN a[key] ELSE default

\* variant: the attribute's initial value, an empty dict, is the default
default_route_popularity_stats_empty == EmptyDict

default_route_popularity_stats == [mean |-> Ratio(100, 1), std |-> Ratio(50, 1)]
default_airline_popularity_stats == [mean |-> Ratio(50, 1), std |-> Ratio(25, 1)]

----------------------------------------------------------------------------
(* The inputs the model draws from *)

TS(y, mo, d, h, mi) == [y |-> y, mo |-> mo, d |-> d, h |-> h, mi |-> mi]
\* a timestamp text pandas parses, written with a blank or with a 'T'
Plain(ts) == [T |-> FALSE, ok |-> TRUE, ts |-> ts]
WithT(ts) == [T |-> TRUE, ok |-> TRUE, ts |-> ts]
\* a text pandas cannot parse (or a missing cell)
BadDate == [T |-> FALSE, ok |-> FALSE, ts |-> TS(1970, 1, 1, 0, 0)]
BadDateT == [T |-> TRUE, ok |-> FALSE, ts |-> TS(1970, 1, 1, 0, 0)]

\* a clock text that is not two integers around one colon, and a missing cell
ClockThreeFields == [isStr |-> TRUE, f |-> <<Tok(8), Tok(0), Tok(0)>>]
ClockWord == [isStr |-> TRUE, f |-> <<Tok(8), BadTok>>]
ClockMissing == [isStr |-> FALSE, f |-> <<>>]

VJ124 == <<"V", "J", "1", "2", "4">>
VJ196 == <<"V", "J", "1", "9", "6">>
VJ999 == <<"V", "J", "9", "9", "9">>
VN210 == <<"V", "N", "2", "1", "0">>
BA900 == <<"B", "A", "9", "0", "0">>
SGN == <<"S", "G", "N">>
HAN == <<"H", "A", "N">>
DAD == <<"D", "A", "D">>
Eco == <<"E", "c", "o">>
Bus == <<"B", "u", "s">>
First == <<"F", "i", "r", "s", "t">>
A320 == <<"A", "3", "2", "0">>
A321 == <<"A", "3", "2", "1">>
A321Padded == <<" ", "A", "3", "2", "1", " ">>
B787 == <<"B", "7", "8", "7">>
Blank == <<" ", " ">>

Row(create_at, fn, plane, dep_ap, arr_ap, flight_date, dep_t, arr_t, cls, price) ==
    [create_at |-> create_at, flight_number |-> fn, type_of_plane |-> plane,
     departure_airport |-> dep_ap, arrival_airport |-> arr_ap,
     flight_date |-> flight_date, departure_time |-> dep_t, arrival_time |-> arr_t,
     classes |-> cls, price |-> price]

\* a table of seven sound rows: the fewest that train_and_evaluate_models accepts
BaseTable ==
    <<Row(Plain(TS(2024, 1, 15, 10, 30)), VJ124, A321, SGN, HAN,
          WithT(TS(2024, 1, 20, 8, 0)), Clock(8, 0), Clock(10, 15), Eco, 1200000),
      Row(Plain(TS(2024, 1, 1, 9, 0)), VJ124, A320, SGN, HAN,
          WithT(TS(2024, 2, 15, 14, 30)), Clock(14, 30), Clock(16, 45), Eco, 900000),
      Row(Plain(TS(2024, 1, 18, 15, 20)), VJ196, A320, SGN, HAN,
          WithT(TS(2024, 1, 25, 19, 0)), Clock(19, 0), Clock(21, 15), Bus, 2500000),
      Row(Plain(TS(2024, 1, 6, 22, 13)), VN210, A321, HAN, SGN,
          WithT(TS(2024, 4, 7, 23, 30)), Clock(23, 30), Clock(1, 0), Eco, 1500000),
      Row(Plain(TS(2024, 1, 2, 7, 5)), VN210, A320, HAN, SGN,
          WithT(TS(2024, 1, 31, 6, 0)), Clock(6, 0), Clock(8, 10), Bus, 2100000),
      Row(Plain(TS(2024, 1, 3, 12, 0)), VJ196, A321Padded, SGN, HAN,
          WithT(TS(2024, 1, 9, 12, 0)), Clock(12, 0), Clock(14, 5), Eco, 1100000),
      Row(Plain(TS(2024, 1, 4, 18, 45)), VJ124, A320, HAN, SGN,
          WithT(TS(2024, 1, 12, 5, 30)), Clock(5, 30), Clock(7, 40), Eco, 1000000)>>

----------------------------------------------------------------------------
(* The calls *)

Call(op, rec, res) ==
    [op |-> op, rec |-> rec, outcome |-> res.outcome, X_input |-> res.X_input,
     raw |-> res.raw, ret |-> res.ret]
Done(op) == Call(op, None, Raised("ok"))
Failed(op, kind) == Call(op, None, Raised(kind))

Unloaded(rows) == [i \in 1..Len(rows) |-> [raw |-> rows[i], derived |-> None]]
RawRows(entries) == [i \in 1..Len(entries) |-> entries[i].raw]
WithDerived(entries) == [i \in 1..Len(entries) |->
                            [raw |-> entries[i].raw, derived |-> Some(entries[i].derived)]]

\* load_and_preprocess_data()
load_and_preprocess_data ==
    IF csv_file = None
    THEN /\ last' = Failed("load_and_preprocess_data", "ValueError")
         /\ UNCHANGED <<csv_file, df, X, bundle, results, disk, memo, completed>>
    ELSE /\ price_stats' = Some(clean_price_stats(Val(csv_file)))
         /\ IF str_accessor_fails(Val(csv_file))
            THEN /\ df' = Some(Unloaded(rows_before_strip(Val(csv_file))))
                 /\ last' = Failed("load_and_preprocess_data", "AttributeError")
            ELSE /\ df' = Some(Unloaded(clean_df(Val(csv_file))))
                 /\ last' = Done("load_and_preprocess_data")
         /\ memo' = None
         /\ UNCHANGED <<csv_file, X, label_encoders, best_model, model_type,
                        feature_columns, results, route_popularity_stats,
                        airline_popularity_stats, disk, completed>>

\* feature_engineering(), on a table that holds at least one row
feature_engineering ==
    IF df = None
    THEN /\ last' = Failed("feature_engineering", "TypeError")
         /\ UNCHANGED <<csv_file, df, X, bundle, results, disk, memo, completed>>
    ELSE LET rows == RawRows(Val(df))
         IN /\ rows /= <<>>
            /\ df' = Some(WithDerived(fe_df(rows)))
            /\ route_popularity_stats' = fe_route_popularity_stats(rows)
            /\ airline_popularity_stats' = fe_airline_popularity_stats(rows)
            /\ label_encoders' = fit_label_encoders(rows)
            /\ feature_columns' = Some(all_feature_columns)
            /\ X' = Some(fe_X(rows))
            /\ last' = Done("feature_engineering")
            /\ memo' = None
            /\ UNCHANGED <<csv_file, best_model, model_type, results, price_stats,
                           disk, completed>>

\* train_and_evaluate_models(), the cross-validated and test errors and what each
\* candidate learnt being whatever scikit-learn computes
Train(CvDraws, TestErrors, Seeds) ==
    IF X = None
    THEN /\ last' = Failed("train_and_evaluate_models", "TypeError")
         /\ UNCHANGED <<csv_file, df, X, bundle, results, disk, memo, completed>>
    ELSE IF ~ can_cross_validate(Len(Val(X)))
    THEN /\ last' = Failed("train_and_evaluate_models", "ValueError")
         /\ UNCHANGED <<csv_file, df, X, bundle, results, disk, memo, completed>>
    ELSE \E cv \in CvDraws,
            test \in [Range(model_names) -> TestErrors],
            seed \in Seeds :
            LET res == make_results(cv, test, seed)
            IN /\ results' = res
               /\ best_model' = Some(res[best_model_name(res)].model)
               /\ model_type' = Some(best_model_name(res))
               /\ last' = Done("train_and_evaluate_models")
               /\ memo' = None
               /\ completed' = TRUE
               /\ UNCHANGED <<csv_file, df, X, label_encoders, feature_columns,
                              price_stats, route_popularity_stats,
                              airline_popularity_stats, disk>>

\* save_model()
save_model ==
    /\ disk' = Some(model_data)
    /\ last' = Done("save_model")
    /\ UNCHANGED <<csv_file, df, X, bundle, results, memo, completed>>

\* load_model(): the assignments run in order, and a key the artifact lacks stops them
load_model ==
    IF disk = None
    THEN /\ last' = Failed("load_model", "FileNotFoundError")
         /\ UNCHANGED <<csv_file, df, X, bundle, results, disk, memo, completed>>
    ELSE LET a == Val(disk)
             n == loaded_prefix(a)
         IN /\ best_model' = IF n >= 1 THEN a.model ELSE best_model
            /\ model_type' = IF n >= 2 THEN a.model_type ELSE model_type
            /\ feature_columns' = IF n >= 3 THEN a.feature_columns ELSE feature_columns
            /\ label_encoders' = IF n >= 4 THEN a.label_encoders ELSE label_encoders
            /\ price_stats' = IF load_complete(a)
                              THEN dict_get(a, "price_stats", Some(EmptyDict))
                              ELSE price_stats
            /\ route_popularity_stats' =
                  IF load_complete(a)
                  THEN dict_get(a, "route_popularity_stats", default_route_popularity_stats)
                  ELSE route_popularity_stats
            /\ airline_popularity_stats' =
                  IF load_complete(a)
                  THEN dict_get(a, "airline_popularity_stats", default_airline_popularity_stats)
                  ELSE airline_popularity_stats
            /\ last' = IF load_complete(a) THEN Done("load_model")
                       ELSE Failed("load_model", "KeyError")
            /\ memo' = None
            /\ completed' = (completed \/ load_complete(a))
            /\ UNCHANGED <<csv_file, df, X, results, disk>>

\* run_complete_pipeline(): the four steps in a row; an exception of the
\* training step leaves what the earlier steps stored
Pipeline(CvDraws, TestErrors, Seeds) ==
    IF csv_file = None
    THEN /\ last' = Failed("run_complete_pipeline", "ValueError")
         /\ UNCHANGED <<csv_file, df, X, bundle, results, disk, memo, completed>>
    ELSE LET rows == clean_df(Val(csv_file))
         IN /\ rows /= <<>>
            /\ df' = Some(WithDerived(fe_df(rows)))
            /\ price_stats' = Some(clean_price_stats(Val(csv_file)))
            /\ route_popularity_stats' = fe_route_popularity_stats(rows)
            /\ airline_popularity_stats' = fe_airline_popularity_stats(rows)
            /\ label_encoders' = fit_label_encoders(rows)
            /\ feature_columns' = Some(all_feature_columns)
            /\ X' = Some(fe_X(rows))
            /\ IF ~ can_cross_validate(Len(fe_X(rows)))
               THEN /\ last' = Failed("run_complete_pipeline", "ValueError")
                    /\ UNCHANGED <<best_model, model_type, results, disk, completed>>
               ELSE \E cv \in CvDraws,
                       test \in [Range(model_names) -> TestErrors],
                       seed \in Seeds :
                       LET res == make_results(cv, test, seed)
                       IN /\ results' = res
                          /\ best_model' = Some(res[best_model_name(res)].model)
                          /\ model_type' = Some(best_model_name(res))
                          /\ last' = Done("run_complete_pipeline")
                          /\ disk' = Some(model_data')
                          /\ completed' = TRUE
            /\ memo' = None
            /\ UNCHANGED csv_file

\* predict_single_flight(flight_data): it reads the bundle and writes nothing
\* variant: the call narrows the stored column list to the columns it could
\* derive, as feature_engineering does with available_features
Predict_narrowing_columns(rec) ==
    /\ last' = Call("predict_single_flight", Some(rec), psf_result(rec))
    /\ memo' = IF memo = None THEN Some([first |-> last', others |-> FALSE])
               ELSE IF Val(memo).first.rec = Some(rec) THEN memo
               ELSE Some([Val(memo) EXCEPT !.others = TRUE])
    /\ feature_columns' =
          IF feature_columns = None THEN None
          ELSE Some(SelectSeq(Val(feature_columns),
                              LAMBDA c : c \in psf_columns(rec, label_encoders)))
    /\ UNCHANGED <<csv_file, df, X, best_model, model_type, label_encoders,
                   price_stats, route_popularity_stats, airline_popularity_stats,
                   results, disk, completed>>

Predict(rec) ==
    /\ last' = Call("predict_single_flight", Some(rec), psf_result(rec))
    /\ memo' = IF memo = None THEN Some([first |-> last', others |-> FALSE])
               ELSE IF Val(memo).first.rec = Some(rec) THEN memo
               ELSE Some([Val(memo) EXCEPT !.others = TRUE])
    /\ UNCHANGED <<csv_file, df, X, bundle, results, disk, completed>>

----------------------------------------------------------------------------
(* The requests *)

request_keys == {"create_at", "flight_number", "type_of_plane", "departure_airport",
                 "arrival_airport", "flight_date", "departure_time", "arrival_time",
                 "classes"}

\* a row of the table, as a prediction request
RequestOf(row) == [k \in request_keys |-> row[k]]

Without(rec, k) == [j \in DOMAIN rec \ {k} |-> rec[j]]

Request0 == RequestOf(BaseTable[1])

\* requests that differ from a training row in one field: a value the training
\* table does not hold, a key the request lacks, a malformed clock or date text
ExtraRequests ==
    {Request0,
     [Request0 EXCEPT !["flight_number"] = VJ999],
     [Request0 EXCEPT !["flight_number"] = BA900],
     [Request0 EXCEPT !["departure_airport"] = DAD],
     [Request0 EXCEPT !["arrival_airport"] = DAD],
     [Request0 EXCEPT !["classes"] = First],
     [Request0 EXCEPT !["type_of_plane"] = B787],
     [Request0 EXCEPT !["type_of_plane"] = B787, !["classes"] = Bus],
     [Request0 EXCEPT !["departure_time"] = ClockWord],
     [Request0 EXCEPT !["arrival_time"] = ClockMissing],
     [Request0 EXCEPT !["arrival_time"] = ClockThreeFields],
     [Request0 EXCEPT !["create_at"] = BadDate],
     [Request0 EXCEPT !["flight_date"] = Plain(TS(2024, 1, 20, 8, 0))],
     Without(Request0, "classes"),
     Without(Request0, "type_of_plane"),
     Without(Request0, "departure_time"),
     Without(Request0, "create_at")}

TableRequests ==
    IF csv_file = None THEN {}
    ELSE {RequestOf(Val(csv_file)[i]) : i \in 1..Len(Val(csv_file))}


\* the cross-validated errors the pipeline's training step may come to, one
\* draw for each candidate being the best, and the test errors and seeds
PipelineCvDraws ==
    {("Random Forest" :> 450000 @@ "Gradient Boosting" :> 480000 @@ "Decision Tree" :> 510000),
     ("Random Forest" :> 500000 @@ "Gradient Boosting" :> 480000 @@ "Decision Tree" :> 510000),
     ("Random Forest" :> 664500 @@ "Gradient Boosting" :> 669440 @@ "Decision Tree" :> 660000)}
PipelineTestErrors == {400000}
PipelineSeeds == {0}

run_complete_pipeline == Pipeline(PipelineCvDraws, PipelineTestErrors, PipelineSeeds)

\* a prediction for a request, and one for a row of the training table
predict_single_flight == \E rec \in ExtraRequests : Predict(rec)
predict_training_row == \E rec \in TableRequests : Predict(rec)

----------------------------------------------------------------------------
(* The object after __init__ *)

FreshObject ==
    /\ df = None
    /\ X = None
    /\ label_encoders = EmptyDict
    /\ best_model = None
    /\ model_type = None
    /\ feature_columns = None
    /\ results = EmptyDict
    /\ price_stats = None
    /\ route_popularity_stats = EmptyDict
    /\ airline_popularity_stats = EmptyDict
    /\ last = Done("__init__")
    /\ memo = None
    /\ completed = FALSE

----------------------------------------------------------------------------
(* The life of a predictor: training, saving, loading, predicting *)

MaxSeed == 0

\* the artifact of an earlier training run on the base table
Artifact(seed, stats) ==
    [model |-> Some([kind |-> "Random Forest", seed |-> seed]),
     model_type |-> Some("Random Forest"),
     feature_columns |-> Some(all_feature_columns),
     label_encoders |-> fit_label_encoders(clean_df(BaseTable)),
     scaler |-> "RobustScaler",
     price_stats |-> Some(stats),
     route_popularity_stats |-> fe_route_popularity_stats(clean_df(BaseTable)),
     airline_popularity_stats |-> fe_airline_popularity_stats(clean_df(BaseTable))]

BaseStats == clean_price_stats(BaseTable)
\* the statistics of a table of implausibly cheap, and of implausibly dear, tickets
CheapStats == [BaseStats EXCEPT !.min = 50000, !.max = 80000]
DearStats == [BaseStats EXCEPT !.min = 60000000, !.max = 70000000]

\* artifacts on disk when the program starts: of the current version, of older
\* versions that stored fewer fields, and one cut short
DiskArtifacts ==
    {Artifact(s, st) : s \in 0..MaxSeed, st \in {BaseStats, CheapStats, DearStats}}
    \cup {Without(Artifact(s, BaseStats), "price_stats") : s \in 0..MaxSeed}
    \cup {Without(Artifact(0, BaseStats), "route_popularity_stats"),
          Without(Artifact(0, BaseStats), "airline_popularity_stats"),
          Without(Without(Without(Artifact(0, CheapStats), "price_stats"),
                          "route_popularity_stats"), "airline_popularity_stats"),
          Without(Artifact(0, BaseStats), "scaler")}

\* a table too short for the five folds of the cross-validation
ShortTable == SubSeq(BaseTable, 1, 3)

\* the requests of the life-cycle runs: one of a training row, one lacking a
\* field, one with an unseen flight number
ProbeRequests ==
    {Request0,
     Without(Request0, "type_of_plane"),
     [Request0 EXCEPT !["flight_number"] = VJ999]}

predict_probe_request == \E rec \in ProbeRequests : Predict(rec)

\* train_and_evaluate_models with the errors run_complete_pipeline is given
train_and_evaluate_models_step ==
    Train(PipelineCvDraws, PipelineTestErrors, PipelineSeeds)

Init ==
    /\ csv_file \in {None, Some(BaseTable), Some(ShortTable)}
    /\ disk \in {None} \cup {Some(a) : a \in DiskArtifacts}
    /\ FreshObject

\* every public method, in any order
Next ==
    \/ load_and_preprocess_data
    \/ feature_engineering
    \/ train_and_evaluate_models_step
    \/ run_complete_pipeline
    \/ save_model
    \/ load_model
    \/ predict_probe_request

Spec == Init /\ [][Next]_vars

----------------------------------------------------------------------------
(* Serving: a bundle trained or loaded, then many different requests *)

InitServe ==
    /\ csv_file \in {None, Some(BaseTable)}
    /\ disk \in {None} \cup {Some(a) : a \in DiskArtifacts}
    /\ FreshObject

NextServe ==
    \/ run_complete_pipeline
    \/ save_model
    \/ load_model
    \/ predict_single_flight

SpecServe == InitServe /\ [][NextServe]_vars

----------------------------------------------------------------------------
(* The cleaner on small tables *)

MaxCleanRows == 4

GoodRow(price) == [BaseTable[1] EXCEPT !.price = price]

\* rows the cleaner keeps or drops: sound ones, ones whose creation timestamp
\* does not parse, whose flight date holds no 'T' or does not parse, whose
\* aircraft type is blank or missing
CleanRows ==
    UNION {{GoodRow(p),
            [GoodRow(p) EXCEPT !.create_at = BadDate],
            [GoodRow(p) EXCEPT !.flight_date = Plain(TS(2024, 1, 20, 8, 0))],
            [GoodRow(p) EXCEPT !.type_of_plane = Blank]} : p \in {1000000, 9000000}}
    \cup {[GoodRow(1000000) EXCEPT !.type_of_plane = NA],
          [GoodRow(9000000) EXCEPT !.flight_date = BadDateT],
          [GoodRow(1000000) EXCEPT !.type_of_plane = A321Padded]}

CleanTables == UNION {[1..n -> CleanRows] : n \in 1..MaxCleanRows}

InitClean ==
    /\ csv_file \in {Some(t) : t \in CleanTables}
    /\ disk = None
    /\ FreshObject

NextClean == load_and_preprocess_data

SpecClean == InitClean /\ [][NextClean]_vars

----------------------------------------------------------------------------
(* The feature engineer and the predictor on the rows of a training table *)

CreateTimes == {TS(2024, 1, 1, 9, 0), TS(2024, 1, 6, 22, 13)}
FlightTimes ==
    {TS(2023, 12, 31, 10, 0), TS(2024, 1, 7, 9, 0), TS(2024, 1, 8, 8, 59),
     TS(2024, 1, 8, 9, 0), TS(2024, 1, 30, 9, 0), TS(2024, 1, 31, 8, 59),
     TS(2024, 1, 31, 9, 0), TS(2024, 2, 15, 14, 30), TS(2024, 3, 30, 9, 0),
     TS(2024, 3, 31, 8, 59), TS(2024, 3, 31, 9, 0), TS(2024, 12, 31, 23, 59)}
DepartureClocks == {Clock(8, 0), Clock(23, 30), Clock(0, 0), Clock(25, 0),
                    Clock(12, 60), ClockWord, ClockMissing}
ArrivalClocks == {Clock(10, 15), Clock(1, 0), Clock(24, 0), Clock(0, 0),
                  ClockThreeFields}

\* the eighth row of the table: its dates, its clock texts or its categories vary
VariedRows ==
    {[BaseTable[2] EXCEPT !.create_at = Plain(c), !.flight_date = WithT(f)] :
        c \in CreateTimes, f \in FlightTimes}
    \cup {[BaseTable[2] EXCEPT !.departure_time = d, !.arrival_time = a] :
        d \in DepartureClocks, a \in ArrivalClocks}
    \cup {[BaseTable[2] EXCEPT !.flight_number = fn, !.type_of_plane = pl, !.classes = cl] :
        fn \in {VJ124, BA900}, pl \in {A320, A321Padded, B787}, cl \in {Eco, First}}

InitFE ==
    /\ csv_file \in {Some(Append(BaseTable, r)) : r \in VariedRows}
    /\ disk = None
    /\ FreshObject

NextFE ==
    \/ run_complete_pipeline
    \/ predict_training_row

SpecFE == InitFE /\ [][NextFE]_vars

----------------------------------------------------------------------------
(* The trainer, called step by step *)

CvErrors == {480000, 500000, 510000}
TestErrors == {400000, 600000}

train_and_evaluate_models ==
    Train([Range(model_names) -> CvErrors], TestErrors, 0..MaxSeed)

InitTrain ==
    /\ csv_file \in {Some(BaseTable), Some(SubSeq(BaseTable, 1, 3))}
    /\ disk = None
    /\ FreshObject

NextTrain ==
    \/ load_and_preprocess_data
    \/ feature_engineering
    \/ train_and_evaluate_models

SpecTrain == InitTrain /\ [][NextTrain]_vars

(* tables for the encoders: rows that pass cleaning and differ in flight     *)
(* number (two of one airline), class (one missing) and aircraft type (one   *)
(* padded with blanks)                                                       *)

MaxEncRows == 2

EncRows ==
    {[BaseTable[1] EXCEPT !.flight_number = fn, !.classes = cls, !.type_of_plane = pl] :
        fn \in {VJ124, VJ196, VN210}, cls \in {Eco, Bus, NA}, pl \in {A320, A321, A321Padded}}

EncTables == UNION {[1..n -> EncRows] : n \in 1..MaxEncRows}

InitEncode ==
    /\ csv_file \in {Some(t) : t \in EncTables}
    /\ disk = None
    /\ FreshObject

NextEncode ==
    \/ load_and_preprocess_data
    \/ feature_engineering

SpecEncode == InitEncode /\ [][NextEncode]_vars

----------------------------------------------------------------------------
(* The claims *)

PredictCall == last.op = "predict_single_flight"
PredictedOk == PredictCall /\ last.outcome = "ok"

\* the value the last prediction put in a column of its input row
ColPos(col) == CHOOSE i \in 1..Len(Val(feature_columns)) : Val(feature_columns)[i] = col
InputValue(col) == Val(last.X_input)[ColPos(col)]

\* the bundle can serve predictions: columns, encoders and popularity means are there
UsableBundle ==
    /\ best_model /= None
    /\ feature_columns /= None
    /\ HasKey(route_popularity_stats, "mean")
    /\ HasKey(airline_popularity_stats, "mean")
    /\ Range(categorical_cols) \subseteq DOMAIN label_encoders

\* the request holds a parsable creation timestamp and flight date
DatesParse(rec) ==
    /\ "create_at" \in DOMAIN rec /\ rec["create_at"].ok
    /\ "flight_date" \in DOMAIN rec /\ rec["flight_date"].ok

C1_DerivedFields ==
    {"create_hour", "create_day_of_week", "create_month", "flight_month",
     "flight_day_of_week", "days_in_advance", "is_weekend_booking",
     "is_weekend_flight", "booking_category", "departure_minutes",
     "flight_duration", "departure_time_category"}

\* the rows of the feature matrix that come from the table row the request repeats
MatrixRowsOf(rec) ==
    {i \in 1..Len(Val(X)) : RequestOf(Val(csv_file)[Val(X)[i].idx]) = rec}

(* C1: a prediction for a record of the training table that passed cleaning and *)
(* whose clock times parsed (a row of the feature matrix) derives the value     *)
(* feature_engineering derived for each of the twelve derived fields, and the   *)
(* training code for each categorical value that is in the vocabulary.          *)
C1_InferenceMatchesTraining ==
    (PredictedOk /\ X /= None /\ csv_file /= None) =>
        \A i \in MatrixRowsOf(Val(last.rec)) :
            /\ \A col \in C1_DerivedFields : InputValue(col) = Val(X)[i].v[col]
            /\ \A c \in Range(categorical_cols) :
                  InVocabulary(label_encoders[c], AsStr(psf_cat_value(Val(last.rec), c)))
                      => InputValue(Encoded(c)) = Val(X)[i].v[Encoded(c)]

\* a training row of an overnight flight of the second airline, predicted
C1_Witness ==
    /\ PredictedOk /\ X /= None /\ csv_file /= None
    /\ \E i \in MatrixRowsOf(Val(last.rec)) :
          /\ Val(X)[i].v["flight_duration"] = 90
          /\ Val(X)[i].v["airline_encoded"] = 1
    /\ InputValue("flight_duration") = 90
    /\ InputValue("airline_encoded") = 1

(* C2: a prediction with a usable bundle, for a request that holds its dates, *)
(* its clock times and its flight number, returns a price; its input row has  *)
(* the bundle's columns in the bundle's order, and a column the request does  *)
(* not let it derive (classes_encoded without classes) holds 0.               *)
C2_AbsentColumnsFilledWithZero ==
    (PredictCall /\ UsableBundle /\ required_keys \subseteq DOMAIN Val(last.rec)
        /\ DatesParse(Val(last.rec))) =>
        /\ last.outcome = "ok"
        /\ Len(Val(last.X_input)) = Len(Val(feature_columns))
        /\ \A i \in 1..Len(Val(feature_columns)) :
              LET col == Val(feature_columns)[i]
              IN Val(last.X_input)[i] =
                    IF col \in psf_columns(Val(last.rec), label_encoders)
                    THEN psf_value(Val(last.rec), label_encoders, col)
                    ELSE 0

(* C3: a prediction with a usable bundle for a request that holds every field *)
(* returns a price whatever its categorical values are; a value outside the   *)
(* field's vocabulary is encoded 0, and a value inside it is encoded by its   *)
(* position in the vocabulary, whatever the other fields hold.                *)
C3_UnseenValueFallsBackToZero ==
    (PredictCall /\ UsableBundle /\ DOMAIN Val(last.rec) = request_keys
        /\ DatesParse(Val(last.rec))) =>
        /\ last.outcome = "ok"
        /\ \A c \in Range(categorical_cols) :
              Encoded(c) \in Range(Val(feature_columns)) =>
                 LET v   == AsStr(psf_cat_value(Val(last.rec), c))
                     cls == label_encoders[c]
                     x   == InputValue(Encoded(c))
                 IN IF \E k \in 1..Len(cls) : cls[k] = v
                    THEN x \in 0..(Len(cls) - 1) /\ cls[x + 1] = v
                    ELSE x = 0

\* an aircraft type the training table does not hold, beside a known fare class
C3_Witness ==
    /\ PredictedOk /\ UsableBundle /\ DOMAIN Val(last.rec) = request_keys
    /\ ~ InVocabulary(label_encoders["type_of_plane"], Val(last.rec)["type_of_plane"])
    /\ InVocabulary(label_encoders["classes"], Val(last.rec)["classes"])
    /\ InputValue("type_of_plane_encoded") = 0
    /\ InputValue("classes_encoded") = 1

HasPriceStats == price_stats /= None /\ DOMAIN Val(price_stats) /= {}
PriceFloor == Max2(Val(price_stats).min, MinFloor)
PriceCeiling == Min2(Val(price_stats).max, MaxCeiling)

ClipsWithinBounds(raw, ret) ==
    /\ raw < PriceFloor => ret = PriceFloor
    /\ raw > PriceCeiling => ret = PriceCeiling
    /\ (raw >= PriceFloor /\ raw <= PriceCeiling) => ret = raw

(* C4, as stated: with the bundle's price statistics, a raw output below the  *)
(* floor returns the floor, one above the ceiling returns the ceiling, any    *)
(* other returns unchanged, also when the floor exceeds the ceiling.          *)
C4_ClipsAlsoWhenFloorExceedsCeiling ==
    (PredictedOk /\ HasPriceStats) => ClipsWithinBounds(Val(last.raw), Val(last.ret))

(* C4, amended: the three cases hold when the floor is at most the ceiling;  *)
(* when the floor exceeds the ceiling every raw output returns the ceiling.  *)
C4_ClipsOrReturnsCeiling ==
    (PredictedOk /\ HasPriceStats) =>
        IF PriceFloor <= PriceCeiling
        THEN ClipsWithinBounds(Val(last.raw), Val(last.ret))
        ELSE Val(last.ret) = PriceCeiling

\* a bundle whose floor exceeds its ceiling, and a raw output below the floor
C4_Witness ==
    /\ PredictedOk /\ HasPriceStats
    /\ PriceFloor > PriceCeiling
    /\ Val(last.raw) < PriceFloor
    /\ Val(last.ret) = PriceCeiling

(* C5, as stated: a prediction called before any train_and_evaluate_models or *)
(* load_model call has completed raises, returns no price and leaves every   *)
(* field as it was; the call is rejected for the lack of a model exactly     *)
(* while best_model is None.                                                 *)
C5_NoModelNoPrediction ==
    [][last'.op = "predict_single_flight" =>
          /\ ~ completed =>
                /\ last'.outcome /= "ok"
                /\ last'.ret = None
                /\ UNCHANGED <<bundle, csv_file, df, X, results, disk>>
          /\ best_model = None => last'.outcome = "ValueError: no model"
          /\ best_model /= None => last'.outcome /= "ValueError: no model"]_vars

(* C6: a prediction, returning or raising, leaves the model, its kind, the    *)
(* feature columns, the encoders and the statistics as they were, and a       *)
(* record predicted again with the same bundle has the outcome and the price  *)
(* of its first prediction, whatever was predicted in between.                *)
C6_PredictionLeavesBundle ==
    [][last'.op = "predict_single_flight" =>
          /\ bundle' = bundle
          /\ (memo /= None /\ Val(memo).first.rec = last'.rec) =>
                /\ last'.outcome = Val(memo).first.outcome
                /\ last'.ret = Val(memo).first.ret]_vars

\* a record predicted, another record predicted, the first predicted again
C6_Witness ==
    /\ PredictedOk /\ memo /= None
    /\ Val(memo).others
    /\ Val(memo).first.rec = last.rec
    /\ Val(memo).first.ret = last.ret

\* the rows the first four documented steps keep: sound, distinct rows
DocumentedSurvivors(table) ==
    drop_blank_type_of_plane(strip_type_of_plane(
        drop_bad_flight_date(drop_bad_create_at(drop_duplicates(read_csv(table))))))

CleanedOk == last.op = "load_and_preprocess_data" /\ last.outcome = "ok"

(* C7, as stated: the statistics and the outlier bounds are those of the rows *)
(* that survive deduplication and the three parsing filters, and the cleaned  *)
(* table is those rows with the ones outside the bounds dropped.              *)
C7_StatisticsOnSurvivors ==
    (CleanedOk /\ DocumentedSurvivors(Val(csv_file)) /= <<>>) =>
        LET sv == DocumentedSurvivors(Val(csv_file))
            Q1 == quantile(Prices(sv), 1)
            Q3 == quantile(Prices(sv), 3)
        IN /\ price_stats = Some(make_price_stats(sv, Q1, Q3))
           /\ RawRows(Val(df)) = within_bounds(sv, Q1, Q3)

SoundRow(r) ==
    /\ r.create_at.ok
    /\ r.flight_date.T /\ r.flight_date.ok
    /\ Strip(r.type_of_plane) /= <<>> /\ r.type_of_plane /= NA

(* C7, amended: duplicates are dropped; Q1, Q3 and the outlier bounds are     *)
(* those of the deduplicated rows, parsable or not; min, max, mean and std    *)
(* are those of the deduplicated rows within the bounds; the cleaned table    *)
(* holds the rows within the bounds that pass the three parsing filters.      *)
C7_StatisticsBeforeParsing ==
    CleanedOk =>
        LET dedup  == drop_duplicates(read_csv(Val(csv_file)))
            Q1     == quantile(Prices(dedup), 1)
            Q3     == quantile(Prices(dedup), 3)
            Inside(r) == /\ 8 * r.price >= 2 * Q1.num - 3 * (Q3.num - Q1.num)
                         /\ 8 * r.price <= 2 * Q3.num + 3 * (Q3.num - Q1.num)
            inside == SelectSeq(dedup, Inside)
            st     == Val(price_stats)
        IN /\ st.Q1 = Q1 /\ st.Q3 = Q3
           /\ st.min \in Range(Prices(inside)) /\ st.max \in Range(Prices(inside))
           /\ \A i \in 1..Len(inside) : st.min <= inside[i].price /\ inside[i].price <= st.max
           /\ st.mean = Ratio(SeqSum(Prices(inside)), Len(inside))
           /\ st.std = StdOf(Prices(inside))
           /\ {e.raw.idx : e \in Range(Val(df))} =
                 {r.idx : r \in {q \in Range(inside) : SoundRow(q)}}

\* the largest price of the statistics is that of a row the parsing filters dropped
C7_Witness ==
    /\ CleanedOk
    /\ Val(df) /= <<>>
    /\ \A e \in Range(Val(df)) : e.raw.price < Val(price_stats).max
    /\ \E i \in 1..Len(Val(csv_file)) :
          /\ ~ Val(csv_file)[i].create_at.ok
          /\ Val(csv_file)[i].price = Val(price_stats).max

TrainedOk == last.op = "train_and_evaluate_models" /\ last.outcome = "ok"

CvOf(name) == results[name].cv_mae_mean

(* C8: after training, the selected kind is a candidate whose mean            *)
(* cross-validated error no candidate beats, the selected model is that       *)
(* candidate's, and the errors 500000, 480000, 510000 select the second       *)
(* candidate, whatever the test errors are.                                   *)
C8_LowestCvErrorSelected ==
    TrainedOk =>
        /\ model_type /= None
        /\ Val(model_type) \in Range(model_names)
        /\ \A n \in Range(model_names) : CvOf(Val(model_type)) <= CvOf(n)
        /\ best_model = Some(results[Val(model_type)].model)
        /\ Val(best_model).kind = Val(model_type)
        /\ (CvOf("Random Forest") = 500000 /\ CvOf("Gradient Boosting") = 480000
               /\ CvOf("Decision Tree") = 510000)
              => model_type = Some("Gradient Boosting")

\* the second candidate is selected although its test error is the worst
C8_Witness ==
    /\ TrainedOk
    /\ CvOf("Random Forest") = 500000 /\ CvOf("Gradient Boosting") = 480000
    /\ CvOf("Decision Tree") = 510000
    /\ results["Gradient Boosting"].test_mae = 600000
    /\ results["Random Forest"].test_mae = 400000
    /\ results["Decision Tree"].test_mae = 400000
    /\ model_type = Some("Gradient Boosting")

(* C9: every row of the training feature matrix has a flight_duration of at  *)
(* least 0 and less than 1440.                                               *)
C9_DurationWithinADay ==
    X /= None =>
        \A i \in 1..Len(Val(X)) :
            /\ Val(X)[i].v["flight_duration"] >= 0
            /\ Val(X)[i].v["flight_duration"] < 1440

\* d is the whole number of days from create to flight
WholeDays(create, flight, d) ==
    /\ d * 1440 <= EpochMinutes(flight) - EpochMinutes(create)
    /\ EpochMinutes(flight) - EpochMinutes(create) < (d + 1) * 1440

\* c is the documented bucket of d
BucketOf(d, c) ==
    /\ c \in 0..3
    /\ c = 0 <=> d < 7
    /\ c = 1 <=> (7 <= d /\ d <= 29)
    /\ c = 2 <=> (30 <= d /\ d <= 89)
    /\ c = 3 <=> d >= 90

DocumentedExample(create, flight, d, c) ==
    (create = TS(2024, 1, 1, 9, 0) /\ flight = TS(2024, 2, 15, 14, 30)) => (d = 45 /\ c = 2)

(* C10: in every row of the training feature matrix and in every input row   *)
(* of a prediction, days_in_advance is the whole number of days from the     *)
(* creation timestamp to the flight date and booking_category is its bucket: *)
(* 0 below 7, 1 from 7 to 29, 2 from 30 to 89, 3 from 90; 2024-01-01T09:00   *)
(* and 2024-02-15T14:30 give 45 days and bucket 2.                           *)
C10_DaysAndBuckets ==
    /\ (X /= None /\ csv_file /= None) =>
          \A i \in 1..Len(Val(X)) :
              LET row == Val(csv_file)[Val(X)[i].idx]
                  d   == Val(X)[i].v["days_in_advance"]
                  c   == Val(X)[i].v["booking_category"]
              IN /\ WholeDays(row.create_at.ts, row.flight_date.ts, d)
                 /\ BucketOf(d, c)
                 /\ DocumentedExample(row.create_at.ts, row.flight_date.ts, d, c)
    /\ PredictedOk =>
          LET rec == Val(last.rec)
              d   == InputValue("days_in_advance")
              c   == InputValue("booking_category")
          IN /\ WholeDays(rec["create_at"].ts, rec["flight_date"].ts, d)
             /\ BucketOf(d, c)
             /\ DocumentedExample(rec["create_at"].ts, rec["flight_date"].ts, d, c)

\* a training row booked 89 days and 23 hours 59 minutes ahead, predicted:
\* one minute short of the fourth bucket
C10_Witness ==
    /\ PredictedOk /\ X /= None
    /\ InputValue("days_in_advance") = 89
    /\ InputValue("booking_category") = 2
    /\ Val(last.rec)["flight_date"].ts = TS(2024, 3, 31, 8, 59)
    /\ \E i \in MatrixRowsOf(Val(last.rec)) :
          /\ Val(X)[i].v["days_in_advance"] = 89
          /\ Val(X)[i].v["booking_category"] = 2

\* the request holds all nine fields and its two dates parse
WellFormedRequest(rec) == DOMAIN rec = request_keys /\ DatesParse(rec)

\* a clock value the parser rejects: not a string, or not two integer fields
Malformed(c) == ~ c.isStr \/ Len(c.f) /= 2 \/ \E k \in 1..Len(c.f) : ~ c.f[k].isInt

\* minutes of a clock value of two integer fields
MinutesOf(c) == c.f[1].v * 60 + c.f[2].v

(* C11: on a usable bundle, a request whose departure or arrival clock value *)
(* is malformed still returns a price; a malformed departure counts as 0     *)
(* minutes (departure_minutes is 0), and a malformed arrival counts as 0     *)
(* minutes (flight_duration is 0 minus the departure, a day added when that  *)
(* is negative).                                                             *)
C11_MalformedClockIsZero ==
    (PredictCall /\ UsableBundle /\ WellFormedRequest(Val(last.rec))) =>
        LET dep == Val(last.rec)["departure_time"]
            arr == Val(last.rec)["arrival_time"]
        IN (Malformed(dep) \/ Malformed(arr)) =>
              /\ last.outcome = "ok"
              /\ last.ret /= None
              /\ Malformed(dep) => InputValue("departure_minutes") = 0
              /\ (Malformed(dep) /\ ~ Malformed(arr)) =>
                    InputValue("flight_duration") = MinutesOf(arr)
              /\ (Malformed(arr) /\ ~ Malformed(dep)) =>
                    InputValue("flight_duration") =
                       IF MinutesOf(dep) > 0 THEN 1440 - MinutesOf(dep) ELSE 0

\* predictions returned a price for a departure with a non-numeric field
C11_Witness ==
    /\ PredictedOk /\ UsableBundle
    /\ Val(last.rec)["departure_time"] = ClockWord
    /\ InputValue("departure_minutes") = 0
    /\ InputValue("flight_duration") = 615
    /\ last.ret /= None

\* a price was returned for an arrival that is not a string
C11_WitnessArrival ==
    /\ PredictedOk /\ UsableBundle
    /\ Val(last.rec)["arrival_time"] = ClockMissing
    /\ InputValue("flight_duration") = 960

stats_keys == {"price_stats", "route_popularity_stats", "airline_popularity_stats"}

\* an artifact with the five fields every version stored and without at least
\* one of the statistics fields
OlderArtifact(a) ==
    /\ Range(load_required) \subseteq DOMAIN a
    /\ ~ (stats_keys \subseteq DOMAIN a)

(* C12: load_model of an artifact that lacks statistics fields succeeds: the *)
(* model, its kind, the columns and the encoders load as stored; absent      *)
(* route statistics load as mean 100, std 50 and absent airline statistics   *)
(* as mean 50, std 25; statistics that are present load as stored; and a     *)
(* prediction of a well-formed request right after the load returns a price. *)
C12_OlderArtifactLoads ==
    [][/\ (last'.op = "load_model" /\ disk /= None /\ OlderArtifact(Val(disk))) =>
            LET a == Val(disk)
            IN /\ last'.outcome = "ok"
               /\ best_model' = a.model
               /\ model_type' = a.model_type
               /\ feature_columns' = a.feature_columns
               /\ label_encoders' = a.label_encoders
               /\ route_popularity_stats' =
                     IF "route_popularity_stats" \in DOMAIN a
                     THEN a.route_popularity_stats
                     ELSE [mean |-> Ratio(100, 1), std |-> Ratio(50, 1)]
               /\ airline_popularity_stats' =
                     IF "airline_popularity_stats" \in DOMAIN a
                     THEN a.airline_popularity_stats
                     ELSE [mean |-> Ratio(50, 1), std |-> Ratio(25, 1)]
               /\ "price_stats" \in DOMAIN a => price_stats' = a.price_stats
       /\ (/\ last.op = "load_model" /\ last.outcome = "ok"
           /\ disk /= None /\ OlderArtifact(Val(disk))
           /\ last'.op = "predict_single_flight"
           /\ WellFormedRequest(Val(last'.rec))) =>
              /\ last'.outcome = "ok"
              /\ last'.ret /= None]_vars

\* a price was returned on a bundle loaded from an artifact without route
\* statistics, the default mean 100 standing in for them
C12_Witness ==
    /\ PredictedOk /\ last.ret /= None
    /\ disk /= None /\ OlderArtifact(Val(disk))
    /\ "route_popularity_stats" \notin DOMAIN Val(disk)
    /\ best_model = Val(disk).model
    /\ route_popularity_stats = [mean |-> Ratio(100, 1), std |-> Ratio(50, 1)]
    /\ InputValue("route_popularity") = Ratio(100, 1)

EngineeredOk == last.op = "feature_engineering" /\ last.outcome = "ok"

\* the values of a categorical field on the rows feature_engineering was given
TrainingValues(col) == {CatValue(e.raw, col) : e \in Range(Val(df))}

(* C13: after feature_engineering, each of the six encoders assigns the      *)
(* distinct training values of its field the codes 0..n-1, one code per      *)
(* value and one value per code: decoding the code of a training value gives *)
(* the value's text back, encoding the text of a code gives the code back,   *)
(* two distinct training values never share a code, and the code stored on   *)
(* each row is that of the row's value.                                      *)
C13_EncoderIsBijection ==
    EngineeredOk =>
        \A col \in Range(categorical_cols) :
            LET classes == label_encoders[col]
                n       == Cardinality(TrainingValues(col))
            IN /\ Len(classes) = n
               /\ \A v \in TrainingValues(col) :
                     /\ InVocabulary(classes, AsStr(v))
                     /\ le_code(classes, AsStr(v)) \in 0..(n - 1)
                     /\ le_inverse(classes, le_code(classes, AsStr(v))) = AsStr(v)
               /\ \A code \in 0..(n - 1) :
                     /\ \E v \in TrainingValues(col) : AsStr(v) = le_inverse(classes, code)
                     /\ le_code(classes, le_inverse(classes, code)) = code
               /\ \A v, w \in TrainingValues(col) :
                     v /= w => le_code(classes, AsStr(v)) /= le_code(classes, AsStr(w))
               /\ \A e \in Range(Val(df)) :
                     Val(e.derived)[Encoded(col)] = le_code(classes, AsStr(CatValue(e.raw, col)))

\* two rows of one airline with different flight numbers, one class missing,
\* one aircraft type that was padded: two flight-number codes, one airline code
C13_Witness ==
    /\ EngineeredOk
    /\ Len(Val(df)) = 2
    /\ Len(label_encoders["flight_number"]) = 2
    /\ Len(label_encoders["airline"]) = 1
    /\ label_encoders["classes"] = <<Eco, <<"n", "a", "n">>>>
    /\ label_encoders["type_of_plane"] = <<A321>>
    /\ \E i \in 1..Len(Val(csv_file)) : Val(csv_file)[i].type_of_plane = A321Padded

(* C14: every price predict_single_flight returns lies between the floor and *)
(* the ceiling: max(trainMin, 100000) and min(trainMax, 50000000) when the   *)
(* bundle carries price statistics, and at least the fixed 100000 and        *)
(* 50000000 when the loaded artifact carried none; a raw model output        *)
(* outside them is never returned.                                           *)
C14_ReturnedPriceWithinBounds ==
    PredictedOk =>
        IF HasPriceStats
        THEN PriceFloor <= Val(last.ret) /\ Val(last.ret) <= PriceCeiling
        ELSE MinFloor <= Val(last.ret) /\ Val(last.ret) <= MaxCeiling

====
